---------------------------- MODULE Spec2Model ----------------------------
(***************************************************************************)
(* Model of mixeddrinks_model.py: the three mapped classes (Ingredient,    *)
(* MixedDrink, DrinkIngredient), the many-to-many relationship             *)
(* libations/components over the secondary table drink_ingredients, and    *)
(* the unit of work (db.session) the module docstring drives them with.    *)
(*                                                                         *)
(* The session is the one the docstring shows: a query reads what has been *)
(* committed (lines 18-21: an added, uncommitted drink is not returned),   *)
(* and commit flushes what is pending and expires every persistent object, *)
(* whose collections are then read back from the tables.  The model folds  *)
(* that reload into the commit: no other operation changes the tables, so  *)
(* the first read after a commit always returns the same rows.             *)
(***************************************************************************)
EXTENDS Integers, Sequences, FiniteSets

\* The objects of the docstring, named by their name column.
Drinks == {"margarita", "tequila sunrise"}
Ingredients == {"tequila", "orange juice"}
Entities == Drinks \cup Ingredients

\* Python's None, shown for an identifier that is not assigned yet.
None == 0
\* First value of a fresh autoincrement column.
FirstId == 1

\* Number of attach operations: appends to a collection and DrinkIngredient
\* objects added to the session.
MaxAttach == 3

VARIABLES
    session_new,           \* pending entities of db.session, in insert order
    added,                 \* entities ever passed to db.session.add
    drink_id,              \* MixedDrink.drink_id of each object
    ingredient_id,         \* Ingredient.ingredient_id of each object
    components,            \* MixedDrink.components, in memory
    libations,             \* Ingredient.libations, in memory
    dis,                   \* the DrinkIngredient objects, in construction order
    drinks,                \* table drinks
    ingredients,           \* table ingredients
    drink_ingredients,     \* table drink_ingredients
    drinks_seq,            \* next drinks.drink_id
    ingredients_seq,       \* next ingredients.ingredient_id
    drink_ingredients_seq, \* next drink_ingredients.drinkingredient_id
    nattach               \* attach operations made so far

vars == <<session_new, added, drink_id, ingredient_id, components,
          libations, dis, drinks, ingredients, drink_ingredients,
          drinks_seq, ingredients_seq, drink_ingredients_seq, nattach>>

----------------------------------------------------------------------------
\* Helpers on sequences.

Range(s) == {s[k] : k \in 1..Len(s)}

Count(x, s) == Cardinality({k \in 1..Len(s) : s[k] = x})

Index(s, x) == CHOOSE k \in 1..Len(s) : s[k] = x

----------------------------------------------------------------------------
\* Object state.

\* The primary key attribute of an entity, whichever class it is.
IdOf(e) == IF e \in Drinks THEN drink_id[e] ELSE ingredient_id[e]

\* An entity is persistent once a commit has given it its primary key.
Persistent(e) == IdOf(e) # None

\* An entity is in the session when it is pending or persistent.
InSession(e) == e \in Range(session_new) \/ Persistent(e)

\* The other side of the relationship, as the given collections hold it.
Related(e, comps, libs) == IF e \in Drinks THEN comps[e] ELSE libs[e]

\* The members of a collection the save-update cascade has not met yet and
\* that are not in the session, each once, in collection order.
RECURSIVE FreshKids(_, _)
FreshKids(s, visited) ==
    IF s = <<>> THEN <<>>
    ELSE IF Head(s) \in visited \/ InSession(Head(s))
         THEN FreshKids(Tail(s), visited)
         ELSE <<Head(s)>> \o FreshKids(Tail(s), visited \cup {Head(s)})

\* The order in which the save-update cascade reaches the objects linked to
\* the ones in todo: depth first, a collection's members in list order.
RECURSIVE CascadeOrder(_, _, _, _, _)
CascadeOrder(todo, out, visited, comps, libs) ==
    IF todo = <<>> THEN out
    ELSE LET h == Head(todo)
             kids == FreshKids(Related(h, comps, libs), visited)
         IN CascadeOrder(kids \o Tail(todo), Append(out, h),
                         visited \cup Range(kids), comps, libs)

\* session.new after e is saved: e and what cascades from it become pending.
SaveOrUpdate(e, comps, libs) ==
    IF InSession(e) THEN session_new
    ELSE session_new \o CascadeOrder(<<e>>, <<>>, {e}, comps, libs)

\* An object nothing has used yet: not in the session and linked to nothing.
Fresh(e) == ~InSession(e) /\ Related(e, components, libations) = <<>>

\* The objects of a class are interchangeable, and the docstring makes
\* 'margarita' before 'tequila sunrise' and 'tequila' before 'orange juice':
\* the second object of a class comes into use once the first one has.
Usable(e) ==
    /\ e = "tequila sunrise" => ~Fresh("margarita")
    /\ e = "orange juice" => ~Fresh("tequila")

----------------------------------------------------------------------------
\* Queries.

\* Variant: the query flushes the session first, so pending drinks show.
QueryAllDrinksAutoflush ==
    {r.drink_name : r \in drinks} \cup {d \in Drinks : d \in Range(session_new)}

\* MixedDrink.query.all(): the rows of the table drinks.
QueryAllDrinks == {r.drink_name : r \in drinks}

\* Ingredient.query.all(): the rows of the table ingredients.
QueryAllIngredients == {r.ingredient_name : r \in ingredients}

\* The drink_ingredients rows that join drink d and ingredient i.
RowsOf(rows, did, iid) ==
    {r \in rows : r.drink_id = did /\ r.ingredient_id = iid}

\* Whether the tables join d and i, which is what a loaded collection shows.
Linked(d, i) ==
    /\ drink_id[d] # None
    /\ ingredient_id[i] # None
    /\ RowsOf(drink_ingredients, drink_id[d], ingredient_id[i]) # {}

----------------------------------------------------------------------------
\* Initial state: after db.drop_all() and db.create_all(), with the objects
\* of the docstring constructed.  MixedDrink(drink_name=...) and
\* Ingredient(ingredient_name=...) give a transient object: its identifier is
\* None, its collection is empty, and neither the session nor a table knows it.

Init ==
    /\ session_new = <<>>
    /\ added = {}
    /\ drink_id = [d \in Drinks |-> None]
    /\ ingredient_id = [i \in Ingredients |-> None]
    /\ components = [d \in Drinks |-> <<>>]
    /\ libations = [i \in Ingredients |-> <<>>]
    /\ dis = <<>>
    /\ drinks = {}
    /\ ingredients = {}
    /\ drink_ingredients = {}
    /\ drinks_seq = FirstId
    /\ ingredients_seq = FirstId
    /\ drink_ingredients_seq = FirstId
    /\ nattach = 0

----------------------------------------------------------------------------
\* db.session.add

\* db.session.add(e) for a drink or an ingredient that is not in the session.
SessionAdd(e) ==
    /\ Usable(e)
    /\ ~InSession(e)
    /\ added' = added \cup {e}
    /\ session_new' = SaveOrUpdate(e, components, libations)
    /\ UNCHANGED <<drink_id, ingredient_id, components, libations,
                   dis, drinks, ingredients, drink_ingredients, drinks_seq,
                   ingredients_seq, drink_ingredients_seq, nattach>>

\* fred = DrinkIngredient(drink_id=d.drink_id, ingredient_id=i.ingredient_id)
\* followed by db.session.add(fred).  The columns take the values the two
\* attributes hold now, None included.  The class has no relationship, so the
\* object is linked to nothing and nothing cascades from it.
AddDrinkIngredient(d, i) ==
    /\ Usable(d)
    /\ Usable(i)
    /\ nattach < MaxAttach
    /\ nattach' = nattach + 1
    /\ dis' = Append(dis, [state |-> "pending",
                           drinkingredient_id |-> None,
                           drink_id |-> drink_id[d],
                           ingredient_id |-> ingredient_id[i]])
    /\ UNCHANGED <<session_new, added, drink_id, ingredient_id,
                   components, libations, drinks, ingredients,
                   drink_ingredients, drinks_seq, ingredients_seq,
                   drink_ingredients_seq>>

----------------------------------------------------------------------------
\* The relationship: libations = relationship('MixedDrink',
\* secondary='drink_ingredients', backref='components').

\* Variant: the append lands in the collection of every object of the class.
AppendToAll(coll, owner, item) ==
    [o \in DOMAIN coll |-> Append(coll[o], item)]

\* list.append on the collection of owner.
AppendTo(coll, owner, item) == [coll EXCEPT ![owner] = Append(@, item)]

\* Variant: a relationship without backref leaves the other side alone.
BackrefMissing(coll, owner, item) == coll

\* The backref: the append is repeated on the reciprocal collection.
Backref(coll, owner, item) == [coll EXCEPT ![owner] = Append(@, item)]

\* Variant: no save-update cascade on the relationship.
TrackCascadeNone(a, b, comps, libs) == session_new

\* Variant: the cascade follows the appended-to collection only, not the
\* backref (cascade_backrefs off).
TrackCascadeForwardOnly(a, b, comps, libs) ==
    IF InSession(a) /\ ~InSession(b) THEN SaveOrUpdate(b, comps, libs)
    ELSE session_new

\* The save-update cascade of an append that links a and b: when one of the
\* two is in the session, the other one is brought into it, with what is
\* linked to it.
TrackCascade(a, b, comps, libs) ==
    IF InSession(a) /\ ~InSession(b) THEN SaveOrUpdate(b, comps, libs)
    ELSE IF InSession(b) /\ ~InSession(a) THEN SaveOrUpdate(a, comps, libs)
    ELSE session_new

\* d.components.append(i)
ComponentsAppend(d, i) ==
    /\ Usable(d)
    /\ Usable(i)
    /\ nattach < MaxAttach
    /\ nattach' = nattach + 1
    /\ components' = AppendTo(components, d, i)
    /\ libations' = Backref(libations, i, d)
    /\ session_new' = TrackCascade(d, i, components', libations')
    /\ UNCHANGED <<added, drink_id, ingredient_id, dis, drinks,
                   ingredients, drink_ingredients, drinks_seq,
                   ingredients_seq, drink_ingredients_seq>>

\* i.libations.append(d)
LibationsAppend(i, d) ==
    /\ Usable(d)
    /\ Usable(i)
    /\ nattach < MaxAttach
    /\ nattach' = nattach + 1
    /\ libations' = AppendTo(libations, i, d)
    /\ components' = Backref(components, d, i)
    /\ session_new' = TrackCascade(i, d, components', libations')
    /\ UNCHANGED <<added, drink_id, ingredient_id, dis, drinks,
                   ingredients, drink_ingredients, drinks_seq,
                   ingredients_seq, drink_ingredients_seq>>

----------------------------------------------------------------------------
\* db.session.commit(): flush, commit, expire.

\* The pending entities of one class, in insert order.
PendingOf(S) == SelectSeq(session_new, LAMBDA e : e \in S)

\* autoincrement: the value the rank-th insert of a flush draws from seq.
Autoincrement(seq, rank) == seq + rank - 1

\* drink_id of d once the pending drinks are inserted.
FlushedDrinkId(d) ==
    IF d \in Range(session_new)
    THEN Autoincrement(drinks_seq, Index(PendingOf(Drinks), d))
    ELSE drink_id[d]

\* Variant: the expired identifier of a persistent ingredient is not read back.
FlushedIngredientIdExpired(i) ==
    IF i \in Range(session_new)
    THEN Autoincrement(ingredients_seq, Index(PendingOf(Ingredients), i))
    ELSE None

\* Variant: ingredients draw their identifier from the counter of drinks.
FlushedIngredientIdShared(i) ==
    IF i \in Range(session_new)
    THEN Autoincrement(drinks_seq, Index(PendingOf(Ingredients), i))
    ELSE ingredient_id[i]

\* ingredient_id of i once the pending ingredients are inserted.
FlushedIngredientId(i) ==
    IF i \in Range(session_new)
    THEN Autoincrement(ingredients_seq, Index(PendingOf(Ingredients), i))
    ELSE ingredient_id[i]

\* The pending DrinkIngredient objects, by position in dis.
PendingDis == {k \in 1..Len(dis) : dis[k].state = "pending"}

\* drinkingredient_id of the k-th DrinkIngredient object once it is inserted.
FlushedDrinkIngredientId(k) ==
    Autoincrement(drink_ingredients_seq,
                  Cardinality({j \in PendingDis : j <= k}))

\* The rows the pending DrinkIngredient objects insert.
MappedInserts ==
    {[drinkingredient_id |-> FlushedDrinkIngredientId(k),
      drink_id |-> dis[k].drink_id,
      ingredient_id |-> dis[k].ingredient_id] : k \in PendingDis}

\* Variant: the flush takes each added member once.
AddedToOnce(i) ==
    SelectSeq([k \in 1..Len(libations[i]) |->
                  IF \E j \in 1..(k - 1) : libations[i][j] = libations[i][k]
                  THEN "" ELSE libations[i][k]],
              LAMBDA d : d # "" /\ ~Linked(d, i))

\* What the flush finds added to i.libations: the members that were not in
\* the collection when it was loaded, as often as they were appended.
AddedTo(i) == SelectSeq(libations[i], LAMBDA d : ~Linked(d, i))

\* Variant: a relationship that writes nothing to the secondary table.
SecondaryOfNone(i) == <<>>

\* The pairs the relationship inserts for ingredient i, in collection order.
SecondaryOf(i) ==
    IF InSession(i)
    THEN [k \in 1..Len(AddedTo(i)) |-> <<AddedTo(i)[k], i>>]
    ELSE <<>>

\* The pairs the relationship inserts for the ingredients whose flushed
\* ingredient_id is at most n.  The relationship is declared on Ingredient,
\* so the flush walks the ingredients; with the backref in sync the walk over
\* the drinks finds the same pairs, and a pair is inserted by one side only.
RECURSIVE SecondaryUpTo(_)
SecondaryUpTo(n) ==
    IF n = 0 THEN <<>>
    ELSE LET owner == {i \in Ingredients : FlushedIngredientId(i) = n}
         IN SecondaryUpTo(n - 1) \o
            (IF owner = {} THEN <<>> ELSE SecondaryOf(CHOOSE i \in owner : TRUE))

\* The pairs the relationship inserts in this flush.
SecondaryPairs ==
    SecondaryUpTo(ingredients_seq + Len(PendingOf(Ingredients)) - 1)

\* The rows the relationship inserts into the secondary table, numbered
\* after the rows of the pending DrinkIngredient objects.
SecondaryInserts ==
    UNION {{[drinkingredient_id |->
                Autoincrement(drink_ingredients_seq, Cardinality(PendingDis) + k),
             drink_id |-> FlushedDrinkId(pairs[k][1]),
             ingredient_id |-> FlushedIngredientId(pairs[k][2])] :
            k \in 1..Len(pairs)} : pairs \in {SecondaryPairs}}

\* d.components read from the tables: the ingredients that rows join to the
\* drink, in row order, each object once.
RECURSIVE LoadComponents(_, _, _, _)
LoadComponents(rows, n, did, iids) ==
    IF n = 0 THEN <<>>
    ELSE LET prev == LoadComponents(rows, n - 1, did, iids)
             hit == {i \in Ingredients :
                        /\ iids[i] # None
                        /\ \E r \in rows :
                              /\ r.drinkingredient_id = n
                              /\ r.drink_id = did
                              /\ r.ingredient_id = iids[i]}
         IN IF hit = {} \/ (CHOOSE i \in hit : TRUE) \in Range(prev)
            THEN prev
            ELSE Append(prev, CHOOSE i \in hit : TRUE)

\* i.libations read from the tables, likewise.
RECURSIVE LoadLibations(_, _, _, _)
LoadLibations(rows, n, iid, dids) ==
    IF n = 0 THEN <<>>
    ELSE LET prev == LoadLibations(rows, n - 1, iid, dids)
             hit == {d \in Drinks :
                        /\ dids[d] # None
                        /\ \E r \in rows :
                              /\ r.drinkingredient_id = n
                              /\ r.ingredient_id = iid
                              /\ r.drink_id = dids[d]}
         IN IF hit = {} \/ (CHOOSE d \in hit : TRUE) \in Range(prev)
            THEN prev
            ELSE Append(prev, CHOOSE d \in hit : TRUE)

\* db.session.commit(): the pending objects are inserted in insert order,
\* then the rows of the relationship; then every persistent object is expired
\* and its collections show what the tables hold.  A transient object is not
\* touched.
SessionCommit ==
    /\ drink_id' = [d \in Drinks |-> FlushedDrinkId(d)]
    /\ ingredient_id' = [i \in Ingredients |-> FlushedIngredientId(i)]
    /\ drinks' = drinks \cup
          {[drink_id |-> drink_id'[d], drink_name |-> d] :
           d \in Range(PendingOf(Drinks))}
    /\ ingredients' = ingredients \cup
          {[ingredient_id |-> ingredient_id'[i], ingredient_name |-> i] :
           i \in Range(PendingOf(Ingredients))}
    /\ drinks_seq' = drinks_seq + Len(PendingOf(Drinks))
    /\ ingredients_seq' = ingredients_seq + Len(PendingOf(Ingredients))
    /\ dis' = [k \in 1..Len(dis) |->
                 IF k \in PendingDis
                 THEN [dis[k] EXCEPT
                          !.state = "persistent",
                          !.drinkingredient_id = FlushedDrinkIngredientId(k)]
                 ELSE dis[k]]
    /\ drink_ingredients' =
          drink_ingredients \cup MappedInserts \cup SecondaryInserts
    /\ drink_ingredients_seq' =
          drink_ingredients_seq + Cardinality(PendingDis) + Len(SecondaryPairs)
    /\ session_new' = <<>>
    /\ components' = [d \in Drinks |->
          IF drink_id'[d] # None
          THEN LoadComponents(drink_ingredients', drink_ingredients_seq' - 1,
                              drink_id'[d], ingredient_id')
          ELSE components[d]]
    /\ libations' = [i \in Ingredients |->
          IF ingredient_id'[i] # None
          THEN LoadLibations(drink_ingredients', drink_ingredients_seq' - 1,
                             ingredient_id'[i], drink_id')
          ELSE libations[i]]
    /\ UNCHANGED <<added, nattach>>

----------------------------------------------------------------------------
Next ==
    \/ \E e \in Entities : SessionAdd(e)
    \/ \E d \in Drinks, i \in Ingredients : AddDrinkIngredient(d, i)
    \/ \E d \in Drinks, i \in Ingredients : ComponentsAppend(d, i)
    \/ \E d \in Drinks, i \in Ingredients : LibationsAppend(i, d)
    \/ SessionCommit

Spec == Init /\ [][Next]_vars

----------------------------------------------------------------------------
\* Well-formedness of the model's state.

TypeOK ==
    /\ Range(session_new) \subseteq Entities
    /\ \A e \in Range(session_new) : ~Persistent(e) /\ Count(e, session_new) = 1
    /\ \A d \in Drinks, i \in Ingredients :
          Count(i, components[d]) > 0 => (InSession(d) <=> InSession(i))
    /\ nattach \in 0..MaxAttach

----------------------------------------------------------------------------
\* Vocabulary of the properties.

\* A step of db.session.commit().  Every other operation counts an attach or
\* records an add, so the steps that leave both as they are, are the commits
\* (CommitStepIsCommit).
CommitStep ==
    /\ nattach' = nattach
    /\ added' = added

CommitStepIsCommit == [][CommitStep <=> SessionCommit]_vars

\* A step that attaches i to d by an append, from either side.
AppendStep(d, i) ==
    /\ nattach' # nattach
    /\ dis' = dis
    /\ ComponentsAppend(d, i) \/ LibationsAppend(i, d)

\* The pending DrinkIngredient objects built from the identifiers of d and i.
PendingDisFor(d, i) ==
    {k \in PendingDis :
        /\ drink_id[d] # None
        /\ ingredient_id[i] # None
        /\ dis[k].drink_id = drink_id[d]
        /\ dis[k].ingredient_id = ingredient_id[i]}

\* The rows that join d and i before the commit, and after it.
RowsBefore(d, i) ==
    IF Linked(d, i)
    THEN RowsOf(drink_ingredients, drink_id[d], ingredient_id[i])
    ELSE {}

RowsAfter(d, i) ==
    IF drink_id'[d] # None /\ ingredient_id'[i] # None
    THEN RowsOf(drink_ingredients', drink_id'[d], ingredient_id'[i])
    ELSE {}

\* The appends of i to d (from either side) that no commit has seen yet: a
\* collection read back from the tables holds a joined ingredient once.
PendingAppends(d, i) ==
    Count(i, components[d]) - (IF Linked(d, i) THEN 1 ELSE 0)

\* After the commit d and i are persisted, each is in the other's collection
\* and a drink_ingredients row holds their two identifiers.
Associated(d, i) ==
    /\ drink_id'[d] # None
    /\ ingredient_id'[i] # None
    /\ i \in Range(components'[d])
    /\ d \in Range(libations'[i])
    /\ RowsAfter(d, i) # {}

\* A single attach of a pair that no row joins yet leaves exactly one row.
OneRowForOneAttach(d, i) ==
    (/\ ~Linked(d, i)
     /\ Count(i, components[d]) + Cardinality(PendingDisFor(d, i)) = 1)
    => Cardinality(RowsAfter(d, i)) = 1

----------------------------------------------------------------------------
\* C1 as stated: for every drink d and ingredient i, whichever way i was
\* attached to d (a pending DrinkIngredient built from their identifiers, an
\* append to d.components or to i.libations), the next commit leaves i in
\* d.components, d in i.libations and a row joining the two identifiers.
C1_AttachConverges_AsStated ==
    [][CommitStep =>
        \A d \in Drinks, i \in Ingredients :
            (Count(i, components[d]) > 0 \/ PendingDisFor(d, i) # {})
            => Associated(d, i) /\ OneRowForOneAttach(d, i)]_vars

\* C1 as amended: the same, for an append, when d or i is in the session by
\* the time of the commit; a DrinkIngredient attaches when both identifiers
\* were assigned when it was built.
C1_AttachConverges ==
    [][CommitStep =>
        \A d \in Drinks, i \in Ingredients :
            (\/ Count(i, components[d]) > 0 /\ (InSession(d) \/ InSession(i))
             \/ PendingDisFor(d, i) # {})
            => Associated(d, i) /\ OneRowForOneAttach(d, i)]_vars

\* A DrinkIngredient row joins margarita and tequila, an append joins
\* margarita and orange juice by one row, and both show on either side.
C1_Witness ==
    /\ \E k \in 1..Len(dis) :
          /\ dis[k].state = "persistent"
          /\ dis[k].drink_id = drink_id["margarita"]
          /\ dis[k].ingredient_id = ingredient_id["tequila"]
          /\ dis[k].drink_id # None
          /\ dis[k].ingredient_id # None
    /\ components["margarita"] = <<"tequila", "orange juice">>
    /\ libations["tequila"] = <<"margarita">>
    /\ libations["orange juice"] = <<"margarita">>
    /\ Cardinality(RowsOf(drink_ingredients, drink_id["margarita"],
                          ingredient_id["orange juice"])) = 1
    /\ ingredient_id["orange juice"] # None

----------------------------------------------------------------------------
\* C2: an ingredient never passed to session.add that sits in the components
\* of a committed drink is persisted by the next commit, together with the
\* row that joins it to the drink.
C2_TransitivePersistence ==
    [][CommitStep =>
        \A d \in Drinks, i \in Ingredients :
            (/\ drink_id[d] # None
             /\ i \in Range(components[d])
             /\ i \notin added
             /\ ingredient_id[i] = None)
            => /\ ingredient_id'[i] # None
               /\ i \in {r.ingredient_name : r \in ingredients'}
               /\ RowsAfter(d, i) # {}]_vars

\* Row 1 is a DrinkIngredient built from the identifiers of margarita and
\* tequila, so both were committed before; orange juice, never added and
\* linked to no other drink, is persisted and joined to margarita by row 2.
C2_Witness ==
    /\ Len(dis) = 1
    /\ dis[1].state = "persistent"
    /\ dis[1].drinkingredient_id = FirstId
    /\ dis[1].drink_id = drink_id["margarita"]
    /\ dis[1].ingredient_id = ingredient_id["tequila"]
    /\ drink_id["margarita"] # None
    /\ ingredient_id["tequila"] # None
    /\ "orange juice" \notin added
    /\ ingredient_id["orange juice"] # None
    /\ drink_id["tequila sunrise"] = None
    /\ components["tequila sunrise"] = <<>>
    /\ \E r \in drink_ingredients :
          /\ r.drinkingredient_id = FirstId + 1
          /\ r.drink_id = drink_id["margarita"]
          /\ r.ingredient_id = ingredient_id["orange juice"]

----------------------------------------------------------------------------
\* C3: a query returns no entity that is only constructed, or added (or
\* cascaded into the session) but not committed yet.
C3_QueryOnlyCommitted ==
    /\ \A d \in Drinks :
          (~InSession(d) \/ d \in Range(session_new)) => d \notin QueryAllDrinks
    /\ \A i \in Ingredients :
          (~InSession(i) \/ i \in Range(session_new))
          => i \notin QueryAllIngredients

\* margarita has been added, nothing is committed, the query returns [].
C3_Witness ==
    /\ "margarita" \in added
    /\ "margarita" \in Range(session_new)
    /\ QueryAllDrinks = {}

----------------------------------------------------------------------------
\* C4: an identifier is None while the entity is transient or pending; only
\* a commit with the entity pending assigns it, that commit does assign it,
\* and no operation changes it afterwards.
C4_IdentifierAssignedOnce ==
    /\ [](\A e \in Range(session_new) : IdOf(e) = None)
    /\ [][/\ \A d \in Drinks :
               /\ drink_id[d] # None => drink_id'[d] = drink_id[d]
               /\ drink_id'[d] # drink_id[d] =>
                     /\ CommitStep
                     /\ d \in Range(session_new)
                     /\ drink_id'[d] \in Nat \ {None}
          /\ \A i \in Ingredients :
               /\ ingredient_id[i] # None => ingredient_id'[i] = ingredient_id[i]
               /\ ingredient_id'[i] # ingredient_id[i] =>
                     /\ CommitStep
                     /\ i \in Range(session_new)
                     /\ ingredient_id'[i] \in Nat \ {None}
          /\ CommitStep =>
               /\ \A d \in Drinks :
                     d \in Range(session_new) => drink_id'[d] # None
               /\ \A i \in Ingredients :
                     i \in Range(session_new) => ingredient_id'[i] # None]_vars

\* tequila was added and holds identifier 1; a DrinkIngredient built from
\* that identifier has been committed since, and the identifier is still 1.
C4_Witness ==
    /\ "tequila" \in added
    /\ ingredient_id["tequila"] = FirstId
    /\ \E k \in 1..Len(dis) :
          /\ dis[k].state = "persistent"
          /\ dis[k].ingredient_id = FirstId
    /\ "orange juice" \in Range(session_new)

----------------------------------------------------------------------------
\* C5 as stated: a pair attached twice or more keeps a row per attach, so
\* after the commit at least two rows hold the pair.
C5_DuplicatesKept_AsStated ==
    [][CommitStep =>
        \A d \in Drinks, i \in Ingredients :
            (/\ InSession(d) \/ InSession(i)
             /\ Cardinality(RowsBefore(d, i))
                  + Cardinality(PendingDisFor(d, i))
                  + PendingAppends(d, i) >= 2)
            => Cardinality(RowsAfter(d, i)) >= 2]_vars

\* C5 as amended: a commit keeps every row, gives every pending
\* DrinkIngredient a row of its own whatever rows hold the same pair, and
\* inserts one row per append of a pair that no row joined yet; an append of a
\* pair already joined inserts nothing.  No two rows share a
\* drinkingredient_id.
C5_DuplicatesKept ==
    /\ [](\A r1, r2 \in drink_ingredients :
             r1.drinkingredient_id = r2.drinkingredient_id => r1 = r2)
    /\ [][CommitStep =>
            /\ drink_ingredients \subseteq drink_ingredients'
            /\ \A d \in Drinks, i \in Ingredients :
                  (InSession(d) \/ InSession(i)) =>
                     Cardinality(RowsAfter(d, i)) =
                        Cardinality(RowsBefore(d, i))
                        + Cardinality(PendingDisFor(d, i))
                        + (IF Linked(d, i) THEN 0
                           ELSE Count(i, components[d]))]_vars

\* Two rows hold the same drink_id and ingredient_id.
C5_Witness ==
    \E r1, r2 \in drink_ingredients :
        /\ r1.drinkingredient_id # r2.drinkingredient_id
        /\ r1.drink_id = r2.drink_id
        /\ r1.ingredient_id = r2.ingredient_id
        /\ r1.drink_id # None
        /\ r1.ingredient_id # None

----------------------------------------------------------------------------
\* C6: an append to either collection puts the item at the end of that
\* collection and the owner at the end of the item's reciprocal collection in
\* the same step, with or without identifiers; the two collections agree in
\* every state.
C6_BackrefInSync ==
    /\ [](\A d \in Drinks, i \in Ingredients :
             Count(i, components[d]) = Count(d, libations[i]))
    /\ [][\A d \in Drinks, i \in Ingredients :
             AppendStep(d, i) =>
                /\ components'[d] = Append(components[d], i)
                /\ libations'[i] = Append(libations[i], d)]_vars

\* Before any commit: tequila sunrise holds tequila and orange juice, and
\* tequila sunrise is the last libation of both.
C6_Witness ==
    /\ drinks = {}
    /\ ingredients = {}
    /\ components["tequila sunrise"] = <<"tequila", "orange juice">>
    /\ libations["orange juice"] = <<"tequila sunrise">>
    /\ libations["tequila"] = <<"margarita", "tequila sunrise">>

----------------------------------------------------------------------------
\* C7 as stated: every row of drink_ingredients holds the identifier of a
\* drink and of an ingredient, neither of them null, and each names an object
\* of the session.
C7_RowsReference ==
    \A r \in drink_ingredients :
        /\ r.drink_id # None
        /\ r.ingredient_id # None
        /\ \E d \in Drinks : InSession(d) /\ drink_id[d] = r.drink_id
        /\ \E i \in Ingredients :
              InSession(i) /\ ingredient_id[i] = r.ingredient_id

----------------------------------------------------------------------------
\* The docstring's run, just before its last commit.
C8_Scenario ==
    /\ drink_id["margarita"] # None
    /\ ingredient_id["tequila"] # None
    /\ Linked("margarita", "tequila")
    /\ drink_id["tequila sunrise"] = None
    /\ ingredient_id["orange juice"] = None
    /\ "tequila sunrise" \notin added
    /\ "orange juice" \notin added
    /\ components["tequila sunrise"] = <<"tequila", "orange juice">>
    /\ libations["tequila"] = <<"margarita", "tequila sunrise">>
    /\ libations["orange juice"] = <<"tequila sunrise">>

\* C8: a drink never passed to session.add, with an ingredient of the session
\* in its components, is persisted by the next commit; in the docstring's
\* run (tequila committed and in margarita, then tequila and the new orange
\* juice appended to the new tequila sunrise) the commit leaves margarita and
\* tequila sunrise in tequila.libations, exactly tequila sunrise in
\* 'orange juice'.libations, and identifiers on the new drink and ingredient.
C8_CascadeFromIngredient ==
    [][CommitStep =>
        /\ \A d \in Drinks :
              (/\ d \notin added
               /\ drink_id[d] = None
               /\ \E i \in Range(components[d]) : InSession(i))
              => /\ drink_id'[d] # None
                 /\ d \in {r.drink_name : r \in drinks'}
        /\ C8_Scenario =>
              /\ {"margarita", "tequila sunrise"}
                    \subseteq Range(libations'["tequila"])
              /\ libations'["orange juice"] = <<"tequila sunrise">>
              /\ drink_id'["tequila sunrise"] # None
              /\ ingredient_id'["orange juice"] # None]_vars

\* Row 1 is a DrinkIngredient built from the identifiers of margarita and
\* tequila, so tequila was committed before tequila sunrise got its rows;
\* neither tequila sunrise nor orange juice was added, both are persisted.
C8_Witness ==
    /\ Len(dis) = 1
    /\ dis[1].state = "persistent"
    /\ dis[1].drinkingredient_id = FirstId
    /\ dis[1].drink_id = drink_id["margarita"]
    /\ dis[1].ingredient_id = ingredient_id["tequila"]
    /\ drink_id["margarita"] # None
    /\ ingredient_id["tequila"] # None
    /\ "tequila sunrise" \notin added
    /\ "orange juice" \notin added
    /\ drink_id["tequila sunrise"] # None
    /\ ingredient_id["orange juice"] # None
    /\ libations["tequila"] = <<"margarita", "tequila sunrise">>
    /\ libations["orange juice"] = <<"tequila sunrise">>

----------------------------------------------------------------------------
\* C9: within a table no two rows and no two objects share an identifier,
\* the identifiers handed out are 1, 2, ... without gap or reuse, and each
\* table counts on its own, so the first row of either table has identifier 1.
C9_TableIds(rows, ids, S) ==
    /\ \A x, y \in S : (ids[x] # None /\ ids[x] = ids[y]) => x = y
    /\ {ids[x] : x \in S} \ {None} = FirstId..(FirstId + Cardinality(rows) - 1)
    /\ rows # {} => \E x \in S : ids[x] = FirstId

C9_IdentifiersUnique ==
    /\ C9_TableIds(drinks, drink_id, Drinks)
    /\ C9_TableIds(ingredients, ingredient_id, Ingredients)
    /\ {r.drink_id : r \in drinks} = {drink_id[d] : d \in Drinks} \ {None}
    /\ {r.ingredient_id : r \in ingredients} =
          {ingredient_id[i] : i \in Ingredients} \ {None}
    /\ Cardinality({r.drink_id : r \in drinks}) = Cardinality(drinks)
    /\ Cardinality({r.ingredient_id : r \in ingredients}) =
          Cardinality(ingredients)

\* margarita and tequila both hold identifier 1; the later objects hold 2.
C9_Witness ==
    /\ drink_id["margarita"] = FirstId
    /\ ingredient_id["tequila"] = FirstId
    /\ drink_id["tequila sunrise"] = FirstId + 1
    /\ ingredient_id["orange juice"] = FirstId + 1

----------------------------------------------------------------------------
\* C10: an append that attaches i to d leaves the components of every other
\* drink and the libations of every other ingredient as they were; a commit
\* changes the members of a collection only by what pending DrinkIngredient
\* rows built from its owner's identifier join to it.
C10_AttachFrame ==
    [][/\ \A d \in Drinks, i \in Ingredients :
             AppendStep(d, i) =>
                /\ \A d2 \in Drinks \ {d} : components'[d2] = components[d2]
                /\ \A i2 \in Ingredients \ {i} : libations'[i2] = libations[i2]
       /\ CommitStep =>
             /\ \A d \in Drinks :
                   Range(components'[d]) = Range(components[d]) \cup
                      {i \in Ingredients : PendingDisFor(d, i) # {}}
             /\ \A i \in Ingredients :
                   Range(libations'[i]) = Range(libations[i]) \cup
                      {d \in Drinks : PendingDisFor(d, i) # {}}]_vars

\* After the commit tequila is in both drinks and orange juice, attached to
\* margarita alone, still has margarita as its only libation.
C10_Witness ==
    /\ nattach = MaxAttach
    /\ session_new = <<>>
    /\ drink_id["tequila sunrise"] # None
    /\ libations["tequila"] = <<"margarita", "tequila sunrise">>
    /\ libations["orange juice"] = <<"margarita">>
    /\ components["tequila sunrise"] = <<"tequila">>
=============================================================================
